---- MODULE Spec2Model ----
(***************************************************************************)
(* Model of parse_news.py: load_html, parse_news and main.                 *)
(*                                                                         *)
(* The HTML document is represented by what the CSS selectors of           *)
(* parse_news see of it: the sequence of candidate fragments               *)
(* (div.node__cart__item.show_views_and_comments) in document order, each  *)
(* with its optional rubric link, primary link, inner info block, title    *)
(* span, description div and time element.  An optional node is a sequence *)
(* of length at most one (<<>> is None).  The text of an element is the    *)
(* sequence of its text pieces, as get_text walks them.                    *)
(*                                                                         *)
(* Two executions of main() over the same file system are modelled         *)
(* (Runs), stepped in any interleaving; one step of the scan is one        *)
(* iteration of the for loop of parse_news.                                *)
(***************************************************************************)
EXTENDS Integers, Sequences, FiniteSets, TLC

VARIABLES fileExists, doc, pc, idx, result, console, outFile

vars == <<fileExists, doc, pc, idx, result, console, outFile>>

\* Largest number of candidate fragments in a document.
MaxFrags == 3

Runs == {1, 2}

Other(r) == IF r = 1 THEN 2 ELSE 1

None == <<>>

Some(x) == <<x>>

-----------------------------------------------------------------------------
(* Text helpers: str.strip() and Tag.get_text(strip=True).                 *)

IsSpace(ch) == ch \in {" ", "\t", "\n"}

RECURSIVE LStrip(_)
LStrip(s) ==
    IF Len(s) = 0 THEN s
    ELSE IF IsSpace(SubSeq(s, 1, 1)) THEN LStrip(SubSeq(s, 2, Len(s)))
    ELSE s

RECURSIVE RStrip(_)
RStrip(s) ==
    IF Len(s) = 0 THEN s
    ELSE IF IsSpace(SubSeq(s, Len(s), Len(s))) THEN RStrip(SubSeq(s, 1, Len(s) - 1))
    ELSE s

Strip(s) == RStrip(LStrip(s))

\* get_text(strip=True): every text piece is stripped, empty pieces are
\* dropped, the rest is joined with the empty separator.
RECURSIVE GetText(_)
GetText(pieces) ==
    IF Len(pieces) = 0 THEN ""
    ELSE Strip(Head(pieces)) \o GetText(Tail(pieces))

-----------------------------------------------------------------------------
(* The documents the scan is run on.                                       *)

TimeFull  == [datetime |-> Some(" 2024-01-01T10:00"), text |-> <<" 10:00 ">>]
TimeNoAttr == [datetime |-> None, text |-> <<"11:00">>]
TimeBlank == [datetime |-> Some("2024-01-02"), text |-> <<" ">>]

InfoFull == [title |-> Some(<<" X", "x ">>), desc |-> Some(<<"D ">>), time |-> Some(TimeFull)]
InfoBare == [title |-> None, desc |-> None, time |-> None]
InfoNoAttr == [title |-> Some(<<"Y">>), desc |-> None, time |-> Some(TimeNoAttr)]
InfoBlank == [title |-> None, desc |-> Some(<<"Z">>), time |-> Some(TimeBlank)]

FragFull == [rubric |-> Some(<<" A ">>),
             link |-> Some([href |-> Some(" /a1 "), info |-> Some(InfoFull)])]
FragBare == [rubric |-> Some(<<"B">>),
             link |-> Some([href |-> None, info |-> Some(InfoBare)])]
FragNoAttr == [rubric |-> Some(<<"B">>),
               link |-> Some([href |-> Some("/b2"), info |-> Some(InfoNoAttr)])]
FragBlank == [rubric |-> Some(<<"A">>),
              link |-> Some([href |-> Some("/a3"), info |-> Some(InfoBlank)])]
FragNoRubric == [rubric |-> None,
                 link |-> Some([href |-> Some("/n4"), info |-> Some(InfoFull)])]
FragNoLink == [rubric |-> Some(<<"B">>), link |-> None]
FragNoInfo == [rubric |-> Some(<<"A">>),
               link |-> Some([href |-> Some("/a5"), info |-> None])]
FragNoCat == [rubric |-> Some(<<>>),
              link |-> Some([href |-> Some("/c6"), info |-> Some(InfoNoAttr)])]

Fragments == {FragFull, FragBare, FragNoAttr, FragBlank,
              FragNoRubric, FragNoLink, FragNoInfo, FragNoCat}

Documents == UNION {[1..n -> Fragments] : n \in 0..MaxFrags}

-----------------------------------------------------------------------------
(* One iteration of the for loop of parse_news.                            *)

Fields == {"title", "description", "url", "datetime", "time_text"}

Category(frag) == GetText(frag.rubric[1])

Url(link_tag) == Strip(IF link_tag.href = None THEN "" ELSE link_tag.href[1])

Title(info) == IF info.title # None THEN GetText(info.title[1]) ELSE ""

Description(info) == IF info.desc # None THEN GetText(info.desc[1]) ELSE ""

DatetimeIso(info) ==
    IF info.time # None /\ info.time[1].datetime # None
    THEN info.time[1].datetime[1]
    ELSE ""

\* Variant: the text is read only from a time element that has the attribute.
TimeTextNeedsAttr(info) ==
    IF info.time # None /\ info.time[1].datetime # None
    THEN GetText(info.time[1].text)
    ELSE ""

TimeText(info) == IF info.time # None THEN GetText(info.time[1].text) ELSE ""

\* Variant: the description key is left out when there is no description div.
NewsItemSparse(frag) ==
    LET link_tag == frag.link[1]
        info == link_tag.info[1]
    IN  IF info.desc = None
        THEN [title |-> Title(info),
              url |-> Url(link_tag),
              datetime |-> DatetimeIso(info),
              time_text |-> TimeText(info)]
        ELSE [title |-> Title(info),
              description |-> Description(info),
              url |-> Url(link_tag),
              datetime |-> DatetimeIso(info),
              time_text |-> TimeText(info)]

NewsItem(frag) ==
    LET link_tag == frag.link[1]
        info == link_tag.info[1]
    IN  [title |-> Title(info),
         description |-> Description(info),
         url |-> Url(link_tag),
         datetime |-> DatetimeIso(info),
         time_text |-> TimeText(info)]

\* Variant: a fragment without a title span is dropped as well.
SkippedUntitled(frag) ==
    \/ frag.rubric = None
    \/ frag.link = None
    \/ frag.link[1].info = None
    \/ frag.link[1].info[1].title = None

\* The three `continue` statements of the loop body.
Skipped(frag) ==
    \/ frag.rubric = None
    \/ frag.link = None
    \/ frag.link[1].info = None

\* Variant: the mapping starts with a default category.
SeededResult == <<[category |-> "Other", items |-> <<>>]>>

\* The dict is an insertion-ordered mapping: a sequence of entries.
EmptyResult == <<>>

HasKey(res, c) == \E i \in DOMAIN res : res[i].category = c

\* Variant: result[category] = [] without the membership test.
SetDefaultReset(res, c) ==
    IF HasKey(res, c)
    THEN [i \in DOMAIN res |->
             IF res[i].category = c THEN [res[i] EXCEPT !.items = <<>>] ELSE res[i]]
    ELSE Append(res, [category |-> c, items |-> <<>>])

\* Variant: a new key is put in front of the existing keys.
SetDefaultFront(res, c) ==
    IF ~HasKey(res, c) THEN <<[category |-> c, items |-> <<>>]>> \o res ELSE res

SetDefault(res, c) ==
    IF ~HasKey(res, c) THEN Append(res, [category |-> c, items |-> <<>>]) ELSE res

\* Variant: the item is inserted at the head of the category's list.
AppendItemFront(res, c, item) ==
    [i \in DOMAIN res |->
        IF res[i].category = c
        THEN [res[i] EXCEPT !.items = <<item>> \o @]
        ELSE res[i]]

AppendItem(res, c, item) ==
    [i \in DOMAIN res |->
        IF res[i].category = c
        THEN [res[i] EXCEPT !.items = Append(@, item)]
        ELSE res[i]]

\* Variant: the key is created right after the rubric check.
LoopBodyKeyFirst(res, frag) ==
    IF frag.rubric = None THEN res
    ELSE IF Skipped(frag) THEN SetDefault(res, Category(frag))
    ELSE AppendItem(SetDefault(res, Category(frag)), Category(frag), NewsItem(frag))

LoopBody(res, frag) ==
    IF Skipped(frag) THEN res
    ELSE AppendItem(SetDefault(res, Category(frag)), Category(frag), NewsItem(frag))

-----------------------------------------------------------------------------
(* main()                                                                  *)

SummaryLines(res) ==
    [i \in DOMAIN res |->
        [kind |-> "count", category |-> res[i].category, n |-> Len(res[i].items)]]

Init ==
    /\ fileExists \in BOOLEAN
    /\ doc \in Documents
    /\ (~fileExists => doc = <<>>)
    /\ pc = [r \in Runs |-> "start"]
    /\ idx = [r \in Runs |-> 0]
    /\ result = [r \in Runs |-> EmptyResult]
    /\ console = [r \in Runs |-> <<>>]
    /\ outFile = None

\* Variant: a missing file is read as the empty document.
LoadLenient(r) ==
    /\ pc[r] = "start"
    /\ pc' = [pc EXCEPT ![r] = "loaded"]
    /\ UNCHANGED <<fileExists, doc, idx, result, console, outFile>>

\* html = load_html(INPUT_FILE)
Load(r) ==
    /\ pc[r] = "start"
    /\ pc' = [pc EXCEPT ![r] = IF fileExists THEN "loaded" ELSE "failed"]
    /\ UNCHANGED <<fileExists, doc, idx, result, console, outFile>>

\* Variant: result is a module-level dict shared by the calls.
ParseStartCarry(r) ==
    /\ pc[r] = "loaded"
    /\ pc' = [pc EXCEPT ![r] = "scan"]
    /\ idx' = [idx EXCEPT ![r] = 0]
    /\ result' = [result EXCEPT ![r] = result[Other(r)]]
    /\ UNCHANGED <<fileExists, doc, console, outFile>>

\* parse_news is entered: the soup is built and result = {}
ParseStart(r) ==
    /\ pc[r] = "loaded"
    /\ pc' = [pc EXCEPT ![r] = "scan"]
    /\ idx' = [idx EXCEPT ![r] = 0]
    /\ result' = [result EXCEPT ![r] = EmptyResult]
    /\ UNCHANGED <<fileExists, doc, console, outFile>>

\* one iteration of the for loop
ScanStep(r) ==
    /\ pc[r] = "scan"
    /\ idx[r] < Len(doc)
    /\ idx' = [idx EXCEPT ![r] = @ + 1]
    /\ result' = [result EXCEPT ![r] = LoopBody(@, doc[idx[r] + 1])]
    /\ UNCHANGED <<fileExists, doc, pc, console, outFile>>

\* return result
ParseReturn(r) ==
    /\ pc[r] = "scan"
    /\ idx[r] = Len(doc)
    /\ pc' = [pc EXCEPT ![r] = "parsed"]
    /\ UNCHANGED <<fileExists, doc, idx, result, console, outFile>>

\* the summary per category and the JSON dump on the console
PrintReport(r) ==
    /\ pc[r] = "parsed"
    /\ console' = [console EXCEPT ![r] =
           <<[kind |-> "header"]>> \o SummaryLines(result[r])
             \o <<[kind |-> "dump", data |-> result[r]]>>]
    /\ pc' = [pc EXCEPT ![r] = "printed"]
    /\ UNCHANGED <<fileExists, doc, idx, result, outFile>>

\* news_parsed.json is written and its path is printed
SaveOutput(r) ==
    /\ pc[r] = "printed"
    /\ outFile' = Some(result[r])
    /\ console' = [console EXCEPT ![r] = Append(@, [kind |-> "saved"])]
    /\ pc' = [pc EXCEPT ![r] = "done"]
    /\ UNCHANGED <<fileExists, doc, idx, result>>

Next ==
    \E r \in Runs :
        \/ Load(r)
        \/ ParseStart(r)
        \/ ScanStep(r)
        \/ ParseReturn(r)
        \/ PrintReport(r)
        \/ SaveOutput(r)

Spec == Init /\ [][Next]_vars

-----------------------------------------------------------------------------
(* Vocabulary of the properties.                                           *)

InParse(r) == pc[r] \in {"scan", "parsed", "printed", "done"}

Returned(r) == pc[r] \in {"parsed", "printed", "done"}

HasRubric(frag) == frag.rubric # None

HasLink(frag) == frag.link # None

HasInfo(frag) == HasLink(frag) /\ frag.link[1].info # None

\* A fragment that passes the rubric check and the primary link check.
Gated(frag) == HasRubric(frag) /\ HasLink(frag)

\* A fragment for which the loop body reaches the append.
Accepted(frag) == Gated(frag) /\ HasInfo(frag)

RECURSIVE TotalItems(_)
TotalItems(res) ==
    IF Len(res) = 0 THEN 0 ELSE Len(Head(res).items) + TotalItems(Tail(res))

KeySet(res) == {res[i].category : i \in DOMAIN res}

KeysDistinct(res) ==
    \A i, j \in DOMAIN res : res[i].category = res[j].category => i = j

ItemsOf(res, c) ==
    IF HasKey(res, c) THEN res[CHOOSE i \in DOMAIN res : res[i].category = c].items
    ELSE <<>>

Last(s) == s[Len(s)]

IsPrefix(s, t) == Len(s) <= Len(t) /\ \A i \in 1..Len(s) : s[i] = t[i]

\* The indices, among the first k fragments of the document, that satisfy P.
Among(k, P(_)) == {i \in 1..k : P(doc[i])}

\* The accepted fragments of category c among the first k, in document order.
RECURSIVE ItemsInOrder(_, _)
ItemsInOrder(c, k) ==
    IF k = 0 THEN <<>>
    ELSE IF Accepted(doc[k]) /\ Category(doc[k]) = c
         THEN Append(ItemsInOrder(c, k - 1), NewsItem(doc[k]))
         ELSE ItemsInOrder(c, k - 1)

\* Where category c first appears among the accepted fragments.
FirstSeen(c, k) ==
    CHOOSE i \in 1..k :
        /\ Accepted(doc[i]) /\ Category(doc[i]) = c
        /\ \A j \in 1..(i - 1) : ~(Accepted(doc[j]) /\ Category(doc[j]) = c)

Blank(pieces) ==
    \A n \in DOMAIN pieces :
        \A m \in 1..Len(pieces[n]) : IsSpace(SubSeq(pieces[n], m, m))

\* The fragment run r has just processed was accepted; its item is the last
\* one of its category.
JustAccepted(r) == InParse(r) /\ idx[r] > 0 /\ Accepted(doc[idx[r]])

JustItem(r) == Last(ItemsOf(result[r], Category(doc[idx[r]])))

JustInfo(r) == doc[idx[r]].link[1].info[1]

-----------------------------------------------------------------------------
\* C1 (as stated): when parse_news has returned, the result holds exactly one
\* item per candidate fragment that has both the rubric link and the primary
\* link; nothing else excludes a fragment, a missing inner content block
\* included.
C1_OneItemPerGatedFragment ==
    \A r \in Runs :
        Returned(r) =>
            TotalItems(result[r]) = Cardinality(Among(Len(doc), Gated))

\* C1 (amended): when parse_news has returned, every category holds exactly
\* one item per candidate fragment of that category that has the rubric link,
\* the primary link and the inner content block; a missing title, description
\* or time element excludes nothing.
C1_OneItemPerAcceptedFragment ==
    \A r \in Runs :
        Returned(r) =>
            /\ TotalItems(result[r]) = Cardinality(Among(Len(doc), Accepted))
            /\ \A f \in Fragments :
                   HasRubric(f) =>
                       Len(ItemsOf(result[r], Category(f))) =
                           Cardinality({i \in 1..Len(doc) :
                               Accepted(doc[i]) /\ Category(doc[i]) = Category(f)})

C1_Witness ==
    /\ pc[1] = "parsed"
    /\ \E i, j, k \in 1..Len(doc) :
           doc[i] = FragBare /\ doc[j] = FragNoInfo /\ doc[k] = FragBlank
    /\ TotalItems(result[1]) = 2

\* C2: a fragment without the rubric link or without the primary link adds no
\* item and no key: after k fragments the item count is at most k minus the
\* number of such fragments, every key is the category of a fragment that has
\* both links, and the final count is at most the number of candidates and
\* strictly below it when some fragment lacks a gating field.
C2_UngatedContributeNothing ==
    \A r \in Runs :
        InParse(r) =>
            LET lacking == {i \in 1..idx[r] : ~Gated(doc[i])}
            IN  /\ TotalItems(result[r]) <= idx[r] - Cardinality(lacking)
                /\ \A c \in KeySet(result[r]) :
                       \E i \in 1..idx[r] : Gated(doc[i]) /\ Category(doc[i]) = c
                /\ Returned(r) =>
                       /\ TotalItems(result[r]) <= Len(doc)
                       /\ (\E i \in 1..Len(doc) : ~Gated(doc[i])) =>
                              TotalItems(result[r]) < Len(doc)

C2_Witness ==
    /\ pc[1] = "parsed"
    /\ Len(doc) = MaxFrags
    /\ \E i, j \in 1..Len(doc) : doc[i] = FragNoLink /\ doc[j] = FragNoRubric
    /\ TotalItems(result[1]) = Len(doc) - 2

\* C3: the keys of the result are, in order, the categories of the accepted
\* fragments in the order of their first appearance, and the list of every
\* category is the accepted fragments of that category in document order.
C3_FirstSeenOrder ==
    \A r \in Runs :
        InParse(r) =>
            LET res == result[r]
                k == idx[r]
            IN  /\ KeysDistinct(res)
                /\ KeySet(res) = {Category(doc[i]) : i \in Among(k, Accepted)}
                /\ \A a, b \in DOMAIN res :
                       a < b => FirstSeen(res[a].category, k) < FirstSeen(res[b].category, k)
                /\ \A a \in DOMAIN res :
                       res[a].items = ItemsInOrder(res[a].category, k)

C3_Witness ==
    /\ pc[1] = "parsed"
    /\ doc = <<FragBare, FragFull, FragNoAttr>>
    /\ Len(result[1]) = 2
    /\ result[1][1].category = "B"
    /\ Len(result[1][1].items) = 2

\* C4: every item of the result has exactly the fields title, description,
\* url, datetime and time_text, each a string, and a field whose title span,
\* description div, href attribute or time element is missing from the
\* accepted fragment is the empty string.
C4_FiveStringFields ==
    \A r \in Runs :
        /\ \A a \in DOMAIN result[r] :
               \A n \in DOMAIN result[r][a].items :
                   LET it == result[r][a].items[n]
                   IN  /\ DOMAIN it = Fields
                       /\ \A f \in Fields : it[f] \in STRING
        /\ JustAccepted(r) =>
               /\ JustInfo(r).title = None => JustItem(r).title = ""
               /\ JustInfo(r).desc = None => JustItem(r).description = ""
               /\ doc[idx[r]].link[1].href = None => JustItem(r).url = ""
               /\ JustInfo(r).time = None =>
                      JustItem(r).datetime = "" /\ JustItem(r).time_text = ""

C4_Witness ==
    /\ pc[1] = "scan"
    /\ idx[1] > 0
    /\ doc[idx[1]] = FragBare
    /\ JustItem(1) = [title |-> "", description |-> "", url |-> "",
                      datetime |-> "", time_text |-> ""]

\* C5 (as stated): datetime is the attribute of the time element verbatim, and
\* "" when the element or the attribute is absent; time_text is the text of
\* the time element, and is "" only when the element is absent.
C5_TimeTextEmptyOnlyWhenAbsent ==
    \A r \in Runs :
        JustAccepted(r) =>
            LET time == JustInfo(r).time
                it == JustItem(r)
            IN  /\ (time # None /\ time[1].datetime # None) =>
                       it.datetime = time[1].datetime[1]
                /\ (time = None \/ time[1].datetime = None) => it.datetime = ""
                /\ time # None => it.time_text = GetText(time[1].text)
                /\ it.time_text = "" <=> time = None

\* C5 (amended): datetime is the attribute of the time element verbatim, and
\* "" when the element or the attribute is absent; time_text is the stripped
\* text of the time element whether or not it has the attribute, and is ""
\* exactly when the element is absent or its text is blank.
C5_TimeFieldsIndependent ==
    \A r \in Runs :
        JustAccepted(r) =>
            LET time == JustInfo(r).time
                it == JustItem(r)
            IN  /\ (time # None /\ time[1].datetime # None) =>
                       it.datetime = time[1].datetime[1]
                /\ (time = None \/ time[1].datetime = None) => it.datetime = ""
                /\ time # None => it.time_text = GetText(time[1].text)
                /\ it.time_text = "" <=> (time = None \/ Blank(time[1].text))

C5_Witness ==
    /\ pc[1] = "scan"
    /\ idx[1] > 0
    /\ doc[idx[1]] = FragNoAttr
    /\ JustItem(1).datetime = ""
    /\ JustItem(1).time_text = "11:00"

\* C6: when the input file does not exist, every run stops in load_html:
\* parse_news is not entered, nothing is printed and news_parsed.json is not
\* written.
C6_MissingInputStopsRun ==
    ~fileExists =>
        /\ outFile = None
        /\ \A r \in Runs :
               /\ pc[r] \in {"start", "failed"}
               /\ ~InParse(r)
               /\ console[r] = <<>>

C6_Witness == ~fileExists /\ pc[1] = "failed" /\ pc[2] = "failed"

\* C7: on a document without candidate fragments parse_news returns the
\* mapping without any key, and the run goes on to report and save it.
C7_NoFragmentsEmptyMapping ==
    \A r \in Runs :
        (fileExists /\ Len(doc) = 0) =>
            /\ pc[r] # "failed"
            /\ Returned(r) => Len(result[r]) = 0
            /\ pc[r] = "done" => outFile # None /\ Len(outFile[1]) = 0

C7_Witness == fileExists /\ Len(doc) = 0 /\ pc[1] = "done" /\ outFile = <<EmptyResult>>

C9_NoEmptyListCountMatches ==
    \A r \in Runs :
        InParse(r) =>
            /\ \A a \in DOMAIN result[r] : Len(result[r][a].items) > 0
            /\ KeysDistinct(result[r])
            /\ TotalItems(result[r]) = Cardinality(Among(idx[r], Accepted))

C9_Witness ==
    /\ pc[1] = "scan"
    /\ idx[1] = 2
    /\ Len(doc) > 2
    /\ Len(result[1]) = 2
    /\ TotalItems(result[1]) = 2

\* C10: a step never removes or reorders keys, never changes the items
\* already in a list, changes the list of at most one category (by one item
\* at its end), and leaves the mapping as it is when the fragment is skipped.
FrameOf(r) ==
    LET old == result[r]
        new == result'[r]
        changed == {i \in DOMAIN new : i \notin DOMAIN old \/ new[i].items # old[i].items}
    IN  /\ Len(old) <= Len(new)
        /\ \A i \in DOMAIN old :
               /\ new[i].category = old[i].category
               /\ IsPrefix(old[i].items, new[i].items)
        /\ Cardinality(changed) <= 1
        /\ TotalItems(new) <= TotalItems(old) + 1
        /\ (pc[r] = "scan" /\ idx'[r] = idx[r] + 1 /\ ~Accepted(doc[idx'[r]])) =>
               new = old

C10_AppendOnly == [][\A r \in Runs : FrameOf(r)]_vars

C10_Witness ==
    /\ pc[1] = "scan"
    /\ idx[1] = MaxFrags
    /\ doc[1] = FragFull
    /\ doc[2] = FragNoLink
    /\ doc[3] = FragBlank
    /\ Len(result[1]) = 1
    /\ Len(result[1][1].items) = 2

====
